---- MODULE Spec2Model ----
(***************************************************************************)
(* The vital-signs feed of frontend/src/App.jsx: the App component's       *)
(* state (vitals, history, isConnected, patientId), the polling effect     *)
(* (setInterval(fetchData, 800) bound to the patientId of the render that  *)
(* ran the effect), the asynchronous continuation of fetchData after its   *)
(* await, and the subject selector's onChange handler.                     *)
(*                                                                         *)
(* A fetch is two steps: Tick issues the request (the timer callback runs  *)
(* fetchData up to its first await), and a Complete* action runs the       *)
(* continuation once the endpoint has answered.  State updates made in one *)
(* continuation or in one event handler are committed together (React      *)
(* batches them into one render).                                          *)
(***************************************************************************)
EXTENDS Integers, Sequences, FiniteSets, TLC

\* ---------------------------------------------------------------- bounds
\* A run departs from the plain cadence (tick, clean 200 response, tick, ...)
\* by a disturbance: a response other than a clean 200, a tick fired while a
\* request is still pending, or a subject switch.
MaxTicks == 22              \* ticks of a long session (fills the buffer)
MaxFillDisturbances == 1    \* disturbances of a long session
MaxShortTicks == 6          \* ticks of a short session
MaxDisturbances == 3        \* disturbances of a short session
MaxSmallTicks == 4          \* ticks of a small session (progress, exports)
MaxSmallDisturbances == 2   \* disturbances of a small session

LongRun == [ticks |-> MaxTicks, disturbances |-> MaxFillDisturbances]
ShortRun == [ticks |-> MaxShortTicks, disturbances |-> MaxDisturbances]
SmallRun == [ticks |-> MaxSmallTicks, disturbances |-> MaxSmallDisturbances]

\* ------------------------------------------------------ program constants
HistoryCap == 20      \* slice(-20)
Interval == 800       \* setInterval(fetchData, 800), milliseconds
PulseLimit == 110     \* ecg_bpm > 110
OxygenLimit == 94     \* spo2_percent < 94
MotionLimit == 45     \* motion_magnitude > 4.5, in tenths

patients == <<"patient_001", "patient_002", "patient_003", "patient_004">>

PatientIds == {patients[i] : i \in 1..Len(patients)}

\* ------------------------------------------------------------ JS values
Null == [null |-> TRUE]
Undefined == "undefined"
NotJson == [text |-> "<html>"]
NoPatient == "none"

\* data.error on a parsed document: undefined when the field is absent
ErrorOf(data) == IF "error" \in DOMAIN data THEN data.error ELSE Undefined

\* JavaScript truthiness of the values an error field takes here
Truthy(v) == v # Undefined /\ v # ""

\* ------------------------------------------------------------- endpoint
\* The reading the endpoint holds for request n: the fields of the
\* documented payload, decimals in tenths.
LatestVital(n) ==
    [_id |-> n,
     timestamp |-> n,
     ecg_bpm |-> 100 + n,
     spo2_percent |-> 100 - (n % 9),
     body_temperature_C |-> 360 + (n % 7),
     motion_magnitude |-> 40 + (n % 8)]

\* The upstream anomaly annotation of reading n, relayed verbatim.
AnomalyReport(n) ==
    [status |-> IF n % 3 = 1 THEN "abnormal" ELSE "normal",
     forecast |-> "stable",
     alerts |-> <<>>]

CleanDoc(n) == [vitals |-> LatestVital(n), anomaly_report |-> AnomalyReport(n)]

ErrorDoc == [error |-> "no data"]

\* What fetch() can settle with for request n: a rejection, or a response
\* with an HTTP status and a body.  fetchData reads the body only.
Rejected == [kind |-> "reject"]

Statuses == {200, 500}

Responses(n) ==
    {Rejected} \cup
    {[kind |-> "response", status |-> st, body |-> b] :
        st \in Statuses, b \in {NotJson, CleanDoc(n), ErrorDoc}}

CleanResponse(n) == [kind |-> "response", status |-> 200, body |-> CleanDoc(n)]

\* -------------------------------------------------------------- state
VARIABLES
    vitals,       \* useState(null)
    history,      \* useState([])
    isConnected,  \* useState(false)
    patientId,    \* useState('patient_001')
    mounted,      \* the App component is mounted
    timers,       \* armed intervals, oldest first: the patientId each captured
    inflight,     \* requests issued and not yet settled
    ticks,        \* ticks fired so far (the wall clock, in intervals)
    applied,      \* history of the buffer's appends since it was last cleared
    vitalsPid,    \* subject of the request whose response is in vitals
    last,         \* the step just taken
    disturbances  \* departures from the plain cadence so far

vars == <<vitals, history, isConnected, patientId, mounted, timers,
          inflight, ticks, applied, vitalsPid, last, disturbances>>

\* ------------------------------------------------------------ helpers
\* Array.prototype.slice(-n): the last n elements, all if fewer
SliceLast(s, n) ==
    IF Len(s) <= n THEN s ELSE SubSeq(s, Len(s) - n + 1, Len(s))

\* new Date().toLocaleTimeString().split(' ')[0]: the clock to the second
TimeLabel(ms) == ms \div 1000

Now == ticks * Interval

newPoint_Swapped(data) ==
    [time |-> TimeLabel(Now),
     hr |-> data.vitals.spo2_percent,
     spo2 |-> data.vitals.ecg_bpm]

newPoint(data) ==
    [time |-> TimeLabel(Now),
     hr |-> data.vitals.ecg_bpm,
     spo2 |-> data.vitals.spo2_percent]

\* the setHistory updater
HistoryUpdater_NoSlice(prev, data) == Append(prev, newPoint(data))

HistoryUpdater_KeepsOldest(prev, data) ==
    LET all == Append(prev, newPoint(data))
    IN IF Len(all) <= HistoryCap THEN all ELSE SubSeq(all, 1, HistoryCap)

HistoryUpdater(prev, data) == SliceLast(Append(prev, newPoint(data)), HistoryCap)

IsFault(r, resp) == resp # CleanResponse(r.id)

\* ---------------------------------------------------------------- Init
Init ==
    /\ vitals = Null
    /\ history = <<>>
    /\ isConnected = FALSE
    /\ patientId = "patient_001"
    /\ mounted = TRUE
    /\ timers = <<"patient_001">>
    /\ inflight = {}
    /\ ticks = 0
    /\ applied = <<>>
    /\ vitalsPid = NoPatient
    /\ last = [op |-> "mount"]
    /\ disturbances = 0

\* ------------------------------------------------------------- actions
\* Every action takes the limits of the run (lim) it is part of.

\* clearInterval(interval) of the effect that ran last: its interval is the
\* one armed last
ClearInterval(ts) == SubSeq(ts, 1, Len(ts) - 1)

\* An armed interval fires: its fetchData runs up to its await on fetch().
Tick(lim) ==
    /\ ticks < lim.ticks
    /\ disturbances' = disturbances + (IF inflight # {} THEN 1 ELSE 0)
    /\ disturbances' <= lim.disturbances
    /\ \E i \in 1..Len(timers) :
          /\ inflight' = inflight \cup {[id |-> ticks + 1, pid |-> timers[i]]}
          /\ last' = [op |-> "tick", pid |-> timers[i]]
    /\ ticks' = ticks + 1
    /\ UNCHANGED <<vitals, history, isConnected, patientId, mounted, timers,
                   applied, vitalsPid>>

\* A request settles with one of the endpoint's responses.
Settle(lim, r, resp) ==
    /\ r \in inflight
    /\ resp \in Responses(r.id)
    /\ disturbances' = disturbances + (IF IsFault(r, resp) THEN 1 ELSE 0)
    /\ disturbances' <= lim.disturbances
    /\ inflight' = inflight \ {r}
    /\ last' = [op |-> "complete", pid |-> r.pid, id |-> r.id, resp |-> resp]
    /\ UNCHANGED <<patientId, mounted, timers, ticks>>

\* fetch() rejected, or response.json() threw
Throws(resp) == IF resp.kind = "reject" THEN TRUE ELSE resp.body = NotJson

\* The catch block.  (A state update of an unmounted component is dropped.)
CompleteCatch_KeepsFlag(lim, r, resp) ==
    /\ Settle(lim, r, resp)
    /\ Throws(resp)
    /\ UNCHANGED <<vitals, history, isConnected, applied, vitalsPid>>

CompleteCatch_StopsTimer(lim, r, resp) ==
    /\ r \in inflight
    /\ resp \in Responses(r.id)
    /\ Throws(resp)
    /\ disturbances' = disturbances + (IF IsFault(r, resp) THEN 1 ELSE 0)
    /\ disturbances' <= lim.disturbances
    /\ inflight' = inflight \ {r}
    /\ last' = [op |-> "complete", pid |-> r.pid, id |-> r.id, resp |-> resp]
    /\ isConnected' = (IF mounted THEN FALSE ELSE isConnected)
    /\ timers' = ClearInterval(timers)
    /\ UNCHANGED <<vitals, history, applied, vitalsPid, patientId, mounted,
                   ticks>>

CompleteCatch(lim, r, resp) ==
    /\ Settle(lim, r, resp)
    /\ Throws(resp)
    /\ isConnected' = (IF mounted THEN FALSE ELSE isConnected)
    /\ UNCHANGED <<vitals, history, applied, vitalsPid>>

\* The body parsed and data.error is truthy: the if has no else, nothing runs.
CompleteError_StoresPayload(lim, r, resp) ==
    /\ Settle(lim, r, resp)
    /\ ~Throws(resp)
    /\ Truthy(ErrorOf(resp.body))
    /\ vitals' = (IF mounted THEN resp.body ELSE vitals)
    /\ UNCHANGED <<history, isConnected, applied, vitalsPid>>

CompleteError(lim, r, resp) ==
    /\ Settle(lim, r, resp)
    /\ ~Throws(resp)
    /\ Truthy(ErrorOf(resp.body))
    /\ UNCHANGED <<vitals, history, isConnected, applied, vitalsPid>>

\* The body parsed and !data.error: setVitals, setIsConnected, setHistory.
CompleteApply_SkipsSnapshot(lim, r, resp) ==
    /\ Settle(lim, r, resp)
    /\ ~Throws(resp)
    /\ ~Truthy(ErrorOf(resp.body))
    /\ IF mounted
       THEN /\ isConnected' = TRUE
            /\ history' = HistoryUpdater(history, resp.body)
            /\ applied' = Append(applied, [pid |-> r.pid, id |-> r.id,
                                           point |-> newPoint(resp.body)])
            /\ UNCHANGED <<vitals, vitalsPid>>
       ELSE UNCHANGED <<vitals, history, isConnected, applied, vitalsPid>>

CompleteApply_Sequenced(lim, r, resp) ==
    /\ Settle(lim, r, resp)
    /\ ~Throws(resp)
    /\ ~Truthy(ErrorOf(resp.body))
    /\ IF mounted /\ (IF vitals = Null THEN TRUE ELSE vitals.vitals._id < r.id)
       THEN /\ vitals' = resp.body
            /\ isConnected' = TRUE
            /\ history' = HistoryUpdater(history, resp.body)
            /\ applied' = Append(applied, [pid |-> r.pid, id |-> r.id,
                                           point |-> newPoint(resp.body)])
            /\ vitalsPid' = r.pid
       ELSE UNCHANGED <<vitals, history, isConnected, applied, vitalsPid>>

CompleteApply(lim, r, resp) ==
    /\ Settle(lim, r, resp)
    /\ ~Throws(resp)
    /\ ~Truthy(ErrorOf(resp.body))
    /\ IF mounted
       THEN /\ vitals' = resp.body
            /\ isConnected' = TRUE
            /\ history' = HistoryUpdater(history, resp.body)
            /\ applied' = Append(applied, [pid |-> r.pid, id |-> r.id,
                                           point |-> newPoint(resp.body)])
            /\ vitalsPid' = r.pid
       ELSE UNCHANGED <<vitals, history, isConnected, applied, vitalsPid>>

\* The subject select's onChange (setPatientId, setHistory([])), then the
\* effect's cleanup and re-run for the new patientId.
SelectPatient_KeepsHistory(lim, p) ==
    /\ mounted
    /\ p \in PatientIds
    /\ p # patientId
    /\ disturbances < lim.disturbances
    /\ disturbances' = disturbances + 1
    /\ patientId' = p
    /\ timers' = Append(ClearInterval(timers), p)
    /\ last' = [op |-> "select", pid |-> p, held |-> Len(history)]
    /\ UNCHANGED <<vitals, history, applied, isConnected, mounted, inflight,
                   ticks, vitalsPid>>

SelectPatient_StaleTimer(lim, p) ==
    /\ mounted
    /\ p \in PatientIds
    /\ p # patientId
    /\ disturbances < lim.disturbances
    /\ disturbances' = disturbances + 1
    /\ patientId' = p
    /\ history' = <<>>
    /\ applied' = <<>>
    /\ last' = [op |-> "select", pid |-> p, held |-> Len(history)]
    /\ UNCHANGED <<vitals, isConnected, mounted, inflight, ticks, vitalsPid,
                   timers>>

SelectPatient_Disconnects(lim, p) ==
    /\ mounted
    /\ p \in PatientIds
    /\ p # patientId
    /\ disturbances < lim.disturbances
    /\ disturbances' = disturbances + 1
    /\ patientId' = p
    /\ history' = <<>>
    /\ applied' = <<>>
    /\ isConnected' = FALSE
    /\ timers' = Append(ClearInterval(timers), p)
    /\ last' = [op |-> "select", pid |-> p, held |-> Len(history)]
    /\ UNCHANGED <<vitals, mounted, inflight, ticks, vitalsPid>>

SelectPatient_NoCleanup(lim, p) ==
    /\ mounted
    /\ p \in PatientIds
    /\ p # patientId
    /\ disturbances < lim.disturbances
    /\ disturbances' = disturbances + 1
    /\ patientId' = p
    /\ history' = <<>>
    /\ applied' = <<>>
    /\ timers' = Append(timers, p)
    /\ last' = [op |-> "select", pid |-> p, held |-> Len(history)]
    /\ UNCHANGED <<vitals, isConnected, mounted, inflight, ticks, vitalsPid>>

SelectPatient(lim, p) ==
    /\ mounted
    /\ p \in PatientIds
    /\ p # patientId
    /\ disturbances < lim.disturbances
    /\ disturbances' = disturbances + 1
    /\ patientId' = p
    /\ history' = <<>>
    /\ applied' = <<>>
    /\ timers' = Append(ClearInterval(timers), p)
    /\ last' = [op |-> "select", pid |-> p, held |-> Len(history)]
    /\ UNCHANGED <<vitals, isConnected, mounted, inflight, ticks, vitalsPid>>

\* The component unmounts: the effect's cleanup clears the interval.
Unmount ==
    /\ mounted
    /\ mounted' = FALSE
    /\ timers' = ClearInterval(timers)
    /\ last' = [op |-> "unmount"]
    /\ UNCHANGED <<vitals, history, isConnected, patientId, inflight, ticks,
                   applied, vitalsPid, disturbances>>

\* ----------------------------------------------------- threshold flags
\* The isAnomaly props of the vital cards.  With vitals null the optional
\* chain yields undefined, and undefined compared with a number is false.
PulseAnomaly_Inclusive(v) ==
    IF v = Null THEN FALSE ELSE v.vitals.ecg_bpm >= PulseLimit

PulseAnomaly(v) ==
    IF v = Null THEN FALSE ELSE v.vitals.ecg_bpm > PulseLimit

OxygenAnomaly(v) ==
    IF v = Null THEN FALSE ELSE v.vitals.spo2_percent < OxygenLimit

MotionAnomaly(v) ==
    IF v = Null THEN FALSE ELSE v.vitals.motion_magnitude > MotionLimit

\* ------------------------------------------------------------- export
NoArtifact == [none |-> TRUE]

\* Template literals are kept as the tuple of their parts.
fhirResource_TempFromSpo2(v, pid) ==
    [resourceType |-> "Observation",
     id |-> <<"ezymedi-", v.vitals._id>>,
     status |-> "final",
     category |-> <<[text |-> "Vital Signs"]>>,
     subject |-> [reference |-> <<"Patient/", pid>>],
     effectiveDateTime |-> v.vitals.timestamp,
     performer |-> <<[display |-> "EzyMedi Intelligent AI Node"]>>,
     component |->
       <<[code |-> [text |-> "Heart Rate"],
          valueQuantity |-> [value |-> v.vitals.ecg_bpm, unit |-> "bpm"]],
         [code |-> [text |-> "SpO2"],
          valueQuantity |-> [value |-> v.vitals.spo2_percent, unit |-> "%"]],
         [code |-> [text |-> "Body Temp"],
          valueQuantity |-> [value |-> v.vitals.spo2_percent, unit |-> "C"]]>>]

fhirResource(v, pid) ==
    [resourceType |-> "Observation",
     id |-> <<"ezymedi-", v.vitals._id>>,
     status |-> "final",
     category |-> <<[text |-> "Vital Signs"]>>,
     subject |-> [reference |-> <<"Patient/", pid>>],
     effectiveDateTime |-> v.vitals.timestamp,
     performer |-> <<[display |-> "EzyMedi Intelligent AI Node"]>>,
     component |->
       <<[code |-> [text |-> "Heart Rate"],
          valueQuantity |-> [value |-> v.vitals.ecg_bpm, unit |-> "bpm"]],
         [code |-> [text |-> "SpO2"],
          valueQuantity |-> [value |-> v.vitals.spo2_percent, unit |-> "%"]],
         [code |-> [text |-> "Body Temp"],
          valueQuantity |-> [value |-> v.vitals.body_temperature_C, unit |-> "C"]]>>]

\* The Blob handed to the download link: the document as JSON and the
\* link's download name.
Download(doc, pid) ==
    [download |-> <<"EzyMedi_FHIR_", pid, ".json">>,
     type |-> "application/json",
     json |-> doc]

\* The EXPORT FHIR button's handler.
handleDownloadFhir_NoGuard ==
    /\ mounted
    /\ last' = [op |-> "export",
                artifact |-> IF vitals = Null
                             THEN Download([resourceType |-> "Observation"],
                                           patientId)
                             ELSE Download(fhirResource(vitals, patientId),
                                           patientId)]
    /\ UNCHANGED <<vitals, history, isConnected, patientId, mounted, timers,
                   inflight, ticks, applied, vitalsPid, disturbances>>

handleDownloadFhir ==
    /\ mounted
    /\ last' = [op |-> "export",
                artifact |-> IF vitals = Null
                             THEN NoArtifact
                             ELSE Download(fhirResource(vitals, patientId),
                                           patientId)]
    /\ UNCHANGED <<vitals, history, isConnected, patientId, mounted, timers,
                   inflight, ticks, applied, vitalsPid, disturbances>>

Run(lim) ==
    \/ Tick(lim)
    \/ \E r \in inflight : \E resp \in Responses(r.id) : CompleteCatch(lim, r, resp)
    \/ \E r \in inflight : \E resp \in Responses(r.id) : CompleteError(lim, r, resp)
    \/ \E r \in inflight : \E resp \in Responses(r.id) : CompleteApply(lim, r, resp)
    \/ \E p \in PatientIds : SelectPatient(lim, p)
    \/ Unmount

\* Short sessions, up to MaxDisturbances disturbances each.
Next == Run(ShortRun)

Spec == Init /\ [][Next]_vars

\* Some pending request settles.
Complete(lim) ==
    \E r \in inflight : \E resp \in Responses(r.id) :
        \/ CompleteCatch(lim, r, resp)
        \/ CompleteError(lim, r, resp)
        \/ CompleteApply(lim, r, resp)

\* Sessions in which an armed interval keeps firing and every fetch settles.
LiveNext == Run(SmallRun)

LiveSpec ==
    /\ Init
    /\ [][LiveNext]_vars
    /\ WF_vars(Tick(SmallRun))
    /\ WF_vars(Complete(SmallRun))

\* Small sessions in which the export button is pressed at any moment.
ExportNext == Run(SmallRun) \/ handleDownloadFhir

ExportSpec == Init /\ [][ExportNext]_vars

\* Long sessions, which fill the History Buffer and evict from it.
FillNext == Run(LongRun)

FillSpec == Init /\ [][FillNext]_vars

\* ------------------------------------------------------ claim vocabulary
\* The step just taken settled a request of a mounted session.
Completed == mounted' /\ last'.op = "complete"

\* ... with a rejected fetch or a body that is not JSON
FetchFailed(resp) ==
    IF resp.kind = "reject" THEN TRUE ELSE "text" \in DOMAIN resp.body

\* ... with a parsed body that carries an error field
CarriesError(resp) ==
    IF resp.kind = "reject" THEN FALSE ELSE "error" \in DOMAIN resp.body

\* ... with a parsed body without an error field
Payload(resp) ==
    IF resp.kind = "reject" THEN FALSE ELSE "vitals" \in DOMAIN resp.body

\* ... with a response whose status is not a success
NonSuccess(resp) ==
    IF resp.kind = "reject" THEN FALSE ELSE resp.status \notin 200..299

Min(a, b) == IF a <= b THEN a ELSE b

\* the last k elements of s
LastK(s, k) == [i \in 1..k |-> s[Len(s) - k + i]]

Points(s) == [i \in 1..Len(s) |-> s[i].point]

\* ---------------------------------------------------------------- C1
\* C1: in every reachable state, after any sequence of ticks, completions
\* and subject switches, the History Buffer holds at most 20 points.
HistoryBounded == Len(history) <= HistoryCap

\* a full buffer that has already evicted a point
HistoryBounded_Witness ==
    Len(history) = HistoryCap /\ Len(applied) > HistoryCap

\* ---------------------------------------------------------------- C2
\* C2: the History Buffer always equals the last min(20, k) of the k points
\* derived since it was last cleared, in arrival order (so an append to a
\* full buffer drops exactly the oldest point).
FifoWindow ==
    history = LastK(Points(applied), Min(HistoryCap, Len(applied)))

\* an eviction has happened in a run with a disturbance (a response that was
\* not a clean 200, or a tick fired over a pending request)
FifoWindow_Witness ==
    /\ Len(applied) = HistoryCap + 1
    /\ Len(history) = HistoryCap
    /\ disturbances = 1
    /\ patientId = "patient_001"

\* ---------------------------------------------------------------- C3
\* C3: a step that changes the subject identifier leaves the History Buffer
\* empty, whatever it held before.
SwitchClearsHistory == [][patientId' # patientId => history' = <<>>]_vars

\* the state right after a switch that found the buffer full
SwitchClearsHistory_Witness ==
    last.op = "select" /\ last.held = HistoryCap /\ history = <<>>

\* ---------------------------------------------------------------- C4
\* C4: in the state right after a subject switch there is no current
\* Snapshot and the History Buffer is empty.
ResetTogether ==
    last.op = "select" => (vitals = Null /\ history = <<>>)

\* ---------------------------------------------------------------- C5
\* C5: a response to a request issued for a subject other than the active
\* one neither appends to the History Buffer nor replaces the Snapshot.
NoStaleData ==
    [][(Completed /\ last'.pid # patientId') =>
          (vitals' = vitals /\ history' = history)]_vars

\* ---------------------------------------------------------------- C6
\* C6: a completion whose fetch was rejected or whose body is not JSON sets
\* ConnectionState to DISCONNECTED and leaves Snapshot and History Buffer
\* as they were.
FailureDisconnects ==
    [][(Completed /\ FetchFailed(last'.resp)) =>
          (isConnected' = FALSE /\ vitals' = vitals /\ history' = history)]_vars

\* a failed fetch has just disconnected a session that holds data
FailureDisconnects_Witness ==
    /\ mounted
    /\ last.op = "complete"
    /\ FetchFailed(last.resp)
    /\ ~isConnected
    /\ vitals # Null
    /\ Len(history) >= 2

\* ---------------------------------------------------------------- C7
\* C7: a completion whose body carries an error field sets ConnectionState
\* to DISCONNECTED.
ErrorFieldDisconnects ==
    [][(Completed /\ CarriesError(last'.resp)) => isConnected' = FALSE]_vars

\* ---------------------------------------------------------------- C8
\* C8: a completion whose body carries an error field leaves the Snapshot
\* and the History Buffer unchanged.
ErrorFieldKeepsData ==
    [][(Completed /\ CarriesError(last'.resp)) =>
          (vitals' = vitals /\ history' = history)]_vars

\* an error payload has just arrived at a session that holds data
ErrorFieldKeepsData_Witness ==
    /\ mounted
    /\ last.op = "complete"
    /\ CarriesError(last.resp)
    /\ vitals # Null
    /\ vitals # last.resp.body
    /\ Len(history) >= 2

\* ---------------------------------------------------------------- C9
\* C9: a completion with a non-success response sets ConnectionState to
\* DISCONNECTED and leaves Snapshot and History Buffer unchanged.
NonSuccessIsFailure ==
    [][(Completed /\ NonSuccess(last'.resp)) =>
          (isConnected' = FALSE /\ vitals' = vitals /\ history' = history)]_vars

\* ---------------------------------------------------------------- C10
\* C10: a completion whose payload has no error field sets ConnectionState
\* to CONNECTED, makes that payload the Snapshot and appends exactly one
\* point, carrying the payload's heart rate and oxygen saturation, in one
\* step.
SuccessApplies ==
    [][(Completed /\ Payload(last'.resp)) =>
          LET data == last'.resp.body
              n == Len(history')
          IN /\ isConnected' = TRUE
             /\ vitals' = data
             /\ n = Min(Len(history) + 1, HistoryCap)
             /\ history'[n].hr = data.vitals.ecg_bpm
             /\ history'[n].spo2 = data.vitals.spo2_percent
             /\ SubSeq(history', 1, n - 1) =
                   LastK(history, n - 1)]_vars

\* a payload has just been applied on top of earlier points
SuccessApplies_Witness ==
    /\ mounted
    /\ last.op = "complete"
    /\ Payload(last.resp)
    /\ isConnected
    /\ vitals = last.resp.body
    /\ Len(history) >= 2
    /\ history[Len(history)].hr = vitals.vitals.ecg_bpm

\* ---------------------------------------------------------------- C11
\* C11: a mounted session has exactly one armed interval and a torn-down
\* session has none, whatever subject switches came before, and no tick is
\* issued after the teardown.
OneTimer ==
    /\ [](Len(timers) = IF mounted THEN 1 ELSE 0)
    /\ [][~mounted => ticks' = ticks]_vars

\* a session torn down after a subject switch, with a request still pending
OneTimer_Witness ==
    /\ ~mounted
    /\ timers = <<>>
    /\ patientId # "patient_001"
    /\ ticks >= 2
    /\ inflight # {}

\* ---------------------------------------------------------------- C12
\* C12: no completion, whatever its outcome, disarms the interval, and after
\* a completion in a session that stays mounted a further tick is
\* eventually issued for the active subject (for every tick count below the
\* run's limit).
CadenceContinues ==
    /\ [][last'.op = "complete" => timers' = timers]_vars
    /\ \A n \in 0..(MaxSmallTicks - 1) :
          (mounted /\ last.op = "complete" /\ ticks = n)
             ~> (~mounted \/ (ticks > n /\ last.op = "tick"
                                /\ last.pid = patientId))

\* a tick issued after a failed fetch disconnected a session that holds data
CadenceContinues_Witness ==
    /\ last.op = "tick"
    /\ last.pid = patientId
    /\ ~isConnected
    /\ vitals # Null
    /\ Cardinality(inflight) = 1

\* ---------------------------------------------------------------- C13
\* C13: whenever an export produces a document, the Snapshot it serializes
\* was received for the subject the document and the file name carry (the
\* active subject).
ExportLabelled ==
    (last.op = "export" /\ last.artifact # NoArtifact) =>
        /\ vitalsPid = patientId
        /\ last.artifact.json.subject.reference = <<"Patient/", vitalsPid>>
        /\ last.artifact.download = <<"EzyMedi_FHIR_", vitalsPid, ".json">>

\* ---------------------------------------------------------------- C14
\* C14: an export with a Snapshot produces a document whose id embeds the
\* snapshot's _id, whose subject is Patient/<active subject>, whose
\* effective time is the snapshot's timestamp and whose three components
\* carry heart rate (bpm), oxygen saturation (%) and body temperature (C)
\* unmodified, in a file named EzyMedi_FHIR_<active subject>.json.
ExportDocument ==
    (last.op = "export" /\ vitals # Null) =>
        LET a == last.artifact
            d == a.json
            v == vitals.vitals
        IN /\ a.download = <<"EzyMedi_FHIR_", patientId, ".json">>
           /\ d.id = <<"ezymedi-", v._id>>
           /\ d.subject.reference = <<"Patient/", patientId>>
           /\ d.effectiveDateTime = v.timestamp
           /\ Len(d.component) = 3
           /\ d.component[1].valueQuantity =
                 [value |-> v.ecg_bpm, unit |-> "bpm"]
           /\ d.component[2].valueQuantity =
                 [value |-> v.spo2_percent, unit |-> "%"]
           /\ d.component[3].valueQuantity =
                 [value |-> v.body_temperature_C, unit |-> "C"]

\* an export of the second reading, pressed while the next request is pending
ExportDocument_Witness ==
    /\ last.op = "export"
    /\ last.artifact # NoArtifact
    /\ vitals # Null
    /\ vitals.vitals._id = 2
    /\ inflight # {}

\* ---------------------------------------------------------------- C15
\* C15: an export pressed while there is no Snapshot produces no artifact
\* and changes neither Snapshot, History Buffer, ConnectionState nor the
\* active subject.
ExportWithoutSnapshot ==
    [][(last'.op = "export" /\ vitals = Null) =>
          /\ last'.artifact = NoArtifact
          /\ vitals' = vitals
          /\ history' = history
          /\ isConnected' = isConnected
          /\ patientId' = patientId]_vars

\* an export pressed after a tick failed and before any succeeded
ExportWithoutSnapshot_Witness ==
    /\ last.op = "export"
    /\ last.artifact = NoArtifact
    /\ vitals = Null
    /\ ticks >= 1
    /\ disturbances >= 1
    /\ inflight = {}

\* ---------------------------------------------------------------- C16
\* C16: the three flags follow the latest Snapshot alone: heart rate flagged
\* iff ecg_bpm > 110 (not at 110, at 111), oxygen saturation iff
\* spo2_percent < 94 (not at 94, at 93), motion iff motion_magnitude > 4.5
\* (not at 4.5, at 4.6), whatever the upstream report says; none is set
\* while there is no Snapshot.
ThresholdFlags ==
    IF vitals = Null
    THEN ~PulseAnomaly(vitals) /\ ~OxygenAnomaly(vitals) /\ ~MotionAnomaly(vitals)
    ELSE LET v == vitals.vitals
         IN /\ PulseAnomaly(vitals) <=> v.ecg_bpm \in 111..1000
            /\ OxygenAnomaly(vitals) <=> v.spo2_percent \in 0..93
            /\ MotionAnomaly(vitals) <=> v.motion_magnitude \in 46..1000
            /\ v.ecg_bpm \in 0..1000
            /\ v.spo2_percent \in 0..100
            /\ v.motion_magnitude \in 0..1000

\* heart rate exactly at the limit, not flagged, while the upstream report
\* says abnormal
ThresholdFlags_Witness ==
    /\ vitals # Null
    /\ vitals.vitals.ecg_bpm = 110
    /\ ~PulseAnomaly(vitals)
    /\ vitals.anomaly_report.status = "abnormal"

\* ---------------------------------------------------------------- C17
\* C17: responses are applied as they arrive: a payload of a request issued
\* before one whose point is already in the buffer still becomes the
\* Snapshot and the newest History point.
\* a point of a request issued after request id is in the buffer's log
Overtaken(id) == \E i \in 1..Len(applied) : applied[i].id > id

ArrivalOrder ==
    [][(Completed /\ Payload(last'.resp) /\ Overtaken(last'.id)) =>
          LET data == last'.resp.body
              n == Len(history')
          IN /\ vitals' = data
             /\ n = Min(Len(history) + 1, HistoryCap)
             /\ history'[n].hr = data.vitals.ecg_bpm
             /\ history'[n].spo2 = data.vitals.spo2_percent
             /\ SubSeq(history', 1, n - 1) = LastK(history, n - 1)
             /\ applied'[Len(applied')].id = last'.id
             /\ \E i \in 1..Len(applied) : applied'[i].id > last'.id]_vars

\* the earlier-issued request of the active subject was applied after the
\* later-issued one
ArrivalOrder_Witness ==
    /\ mounted
    /\ last.op = "complete"
    /\ last.pid = patientId
    /\ Len(applied) >= 2
    /\ applied[Len(applied)].id = last.id
    /\ applied[Len(applied) - 1].id > last.id
    /\ applied[Len(applied) - 1].pid = patientId
    /\ vitals # Null
    /\ vitals.vitals._id = last.id
    /\ history[Len(history)].hr = vitals.vitals.ecg_bpm

\* ---------------------------------------------------------------- C18
\* C18: every request a tick issues is for the subject that is selected
\* when the tick fires, after any sequence of subject switches.
TickForActiveSubject ==
    [][\A r \in inflight' \ inflight : r.pid = patientId']_vars

\* a tick for the newly selected subject, fired while a request for the
\* previous subject is still pending
TickForActiveSubject_Witness ==
    /\ last.op = "tick"
    /\ patientId # "patient_001"
    /\ \E r \in inflight : r.pid = patientId /\ r.id = ticks
    /\ \E r \in inflight : r.pid = "patient_001"

\* ---------------------------------------------------------------- C19
\* C19: whenever the History Buffer is not empty there is a Snapshot, and
\* the newest point carries the Snapshot's heart rate and oxygen saturation.
NewestPointIsSnapshot ==
    history # <<>> =>
        /\ vitals # Null
        /\ history[Len(history)].hr = vitals.vitals.ecg_bpm
        /\ history[Len(history)].spo2 = vitals.vitals.spo2_percent

\* points of the newly selected subject, the latest of them applied out of
\* order
NewestPointIsSnapshot_Witness ==
    /\ Len(history) >= 2
    /\ patientId # "patient_001"
    /\ vitals # Null
    /\ vitalsPid = patientId
    /\ applied[Len(applied) - 1].id > applied[Len(applied)].id

\* ---------------------------------------------------------------- C20
\* C20: a step that changes the subject identifier leaves ConnectionState
\* as it was.
SwitchKeepsConnection ==
    [][patientId' # patientId => isConnected' = isConnected]_vars

\* the state right after a switch made while CONNECTED
SwitchKeepsConnection_Witness ==
    /\ last.op = "select"
    /\ last.held >= 1
    /\ isConnected
    /\ history = <<>>
    /\ inflight = {}

====
